---- MODULE Spec2Model ----
(***************************************************************************)
(* The Professional Analyst Bot (app.py): a Streamlit script that is run   *)
(* from top to bottom on every user interaction.  The state is the         *)
(* uploaded file, the widget values Streamlit keeps between runs, and what *)
(* the last run of the script computed and displayed.                      *)
(***************************************************************************)
EXTENDS Integers, Sequences, FiniteSets, TLC

VARIABLES
    uploaded_file,    \* value of st.file_uploader
    session_state,    \* widget values Streamlit keeps between runs
    df,               \* the DataFrame of the last run
    analysis,         \* result of professional_analysis in the last run
    plot_type,        \* script variable plot_type of the last run
    script_locals,    \* column variables the last run defined
    chart,            \* what the last run drew on ax_interactive
    report_contents,  \* text handed to the download button
    page,             \* elements the last run displayed
    read_csv_calls    \* number of pd.read_csv calls of the last run

vars == <<uploaded_file, session_state, df, analysis, plot_type, script_locals,
          chart, report_contents, page, read_csv_calls>>

-----------------------------------------------------------------------------
(* Bounds of the model *)

MaxCols == 3
MaxFields == 4

(* The most rows a file of n columns has within MaxFields fields. *)
MaxRows(n) == MaxFields \div n

(* A field of a CSV line, by what pandas infers from it. *)
Cells == {"num", "text", "bool", "null"}

ColName(i) == "c" \o ToString(i)

Range(s) == {s[i] : i \in 1..Len(s)}

NoFile == [kind |-> "none", header |-> <<>>, rows |-> <<>>]

Malformed == [kind |-> "malformed", header |-> <<>>, rows |-> <<>>]

(* A well-formed CSV file: a header of n column names and rows of n fields. *)
CsvFile(n, rs) == [kind |-> "csv", header |-> [i \in 1..n |-> ColName(i)], rows |-> rs]

IsCsvFile(f) ==
    /\ f.kind = "csv"
    /\ Len(f.header) \in 1..MaxCols
    /\ Len(f.rows) \in 0..MaxRows(Len(f.header))
    /\ \A r \in 1..Len(f.rows) : f.rows[r] \in [1..Len(f.header) -> Cells]

-----------------------------------------------------------------------------
(* pandas *)

NoDf == [defined |-> FALSE, columns |-> <<>>, dtypes |-> <<>>, non_null |-> <<>>, nrows |-> 0]

IsBlankLine(r) == Len(r) = 1 /\ r[1] = "null"

InferDtype(cells) ==
    IF cells = {} THEN "object"
    ELSE IF cells \subseteq {"num", "null"} THEN "number"
    ELSE IF cells = {"bool"} THEN "bool"
    ELSE "object"

CountNonNull(rows, i) == Cardinality({r \in 1..Len(rows) : rows[r][i] # "null"})

read_csv_lenient(file) ==
    [error |-> FALSE,
     df |-> [defined |-> TRUE,
             columns |-> file.header,
             dtypes |-> [i \in 1..Len(file.header) |-> "object"],
             non_null |-> [i \in 1..Len(file.header) |-> 0],
             nrows |-> 0]]

read_csv(file) ==
    IF file.kind # "csv" THEN [error |-> TRUE, df |-> NoDf]
    ELSE LET rows == SelectSeq(file.rows, LAMBDA r : ~IsBlankLine(r))
             n == Len(file.header)
         IN [error |-> FALSE,
             df |-> [defined |-> TRUE,
                     columns |-> file.header,
                     dtypes |-> [i \in 1..n |-> InferDtype({rows[r][i] : r \in 1..Len(rows)})],
                     non_null |-> [i \in 1..n |-> CountNonNull(rows, i)],
                     nrows |-> Len(rows)]]

ColIndex(d, c) == CHOOSE i \in 1..Len(d.columns) : d.columns[i] = c

RECURSIVE select_from(_, _, _)
select_from(d, include, i) ==
    IF i > Len(d.columns) THEN <<>>
    ELSE (IF d.dtypes[i] \in include THEN <<d.columns[i]>> ELSE <<>>)
         \o select_from(d, include, i + 1)

select_dtypes(d, include) == select_from(d, include, 1)

NumericMetrics == <<"count", "mean", "std", "min", "25%", "50%", "75%", "max">>

CategoricalMetrics == <<"count", "unique", "top", "freq">>

Stat(d, m, c) ==
    LET n == d.non_null[ColIndex(d, c)]
    IN IF m = "count" THEN ToString(n)
       ELSE IF n = 0 THEN "NaN"
       ELSE m \o "(" \o c \o ")"

Summary(d, metrics, cols) ==
    [metrics |-> metrics,
     columns |-> cols,
     values |-> [i \in 1..Len(metrics) |-> [j \in 1..Len(cols) |-> Stat(d, metrics[i], cols[j])]]]

describe_numeric_only(d) ==
    Summary(d, NumericMetrics, select_dtypes(d, {"number"}))

describe(d) ==
    LET num == select_dtypes(d, {"number"})
    IN IF Len(num) = 0
       THEN Summary(d, CategoricalMetrics, d.columns)
       ELSE Summary(d, NumericMetrics, num)

-----------------------------------------------------------------------------
(* professional_analysis *)

NoAnalysis ==
    [info_df |-> <<>>,
     statistical_summary_df |-> [metrics |-> <<>>, columns |-> <<>>, values |-> <<>>],
     correlation_matrix_fig |-> "None"]

info_df(d) ==
    [i \in 1..Len(d.columns) |->
        [Column |-> d.columns[i], NonNullCount |-> d.non_null[i], DataType |-> d.dtypes[i]]]

correlation_matrix_fig_any(d) ==
    LET numerical_cols == select_dtypes(d, {"number"})
    IN IF Len(numerical_cols) > 0 THEN "fig_corr" ELSE "None"

correlation_matrix_fig(d) ==
    LET numerical_cols == select_dtypes(d, {"number"})
    IN IF Len(numerical_cols) > 1 THEN "fig_corr" ELSE "None"

professional_analysis(d) ==
    [info_df |-> info_df(d),
     statistical_summary_df |-> describe(d),
     correlation_matrix_fig |-> correlation_matrix_fig(d)]

-----------------------------------------------------------------------------
(* Streamlit widgets *)

PlotTypes == <<"Histogram", "Bar Chart", "Scatter Plot">>

NoWidgets == [k \in {} |-> ""]

(* st.selectbox: the value the user last chose while the widget stayed on  *)
(* the page, otherwise the option at the default index.                    *)
selectbox(ws, key, options, index) ==
    IF key \in DOMAIN ws THEN ws[key] ELSE options[index + 1]

(* Streamlit keeps the state of the widgets the run executed and forgets   *)
(* the state of every other widget.                                        *)
widget_state_kept(ws, rendered) == rendered @@ ws

widget_state(ws, rendered) == rendered

numerical_columns(d) == select_dtypes(d, {"number"})

categorical_columns(d) == select_dtypes(d, {"object", "category"})

(* Bar Chart offered without a categorical column, over all_columns. *)
column_widgets_any_x(d, pt, ws) ==
    LET num == select_dtypes(d, {"number"})
        cat == select_dtypes(d, {"object", "category"})
    IN IF pt = "Histogram" /\ Len(num) > 0
       THEN "selected_col" :> selectbox(ws, "selected_col", num, 0)
       ELSE IF pt = "Bar Chart" /\ Len(num) > 0
       THEN ("selected_cat_col" :> selectbox(ws, "selected_cat_col", d.columns, 0))
            @@ ("selected_num_col" :> selectbox(ws, "selected_num_col", num, 0))
       ELSE IF pt = "Scatter Plot" /\ Len(num) >= 2
       THEN ("x_axis" :> selectbox(ws, "x_axis", num, 0))
            @@ ("y_axis" :> selectbox(ws, "y_axis", num, IF Len(num) > 1 THEN 1 ELSE 0))
       ELSE NoWidgets

(* Scatter Plot offered only with more than two numeric columns. *)
column_widgets_strict(d, pt, ws) ==
    LET num == select_dtypes(d, {"number"})
        cat == select_dtypes(d, {"object", "category"})
    IN IF pt = "Histogram" /\ Len(num) > 0
       THEN "selected_col" :> selectbox(ws, "selected_col", num, 0)
       ELSE IF pt = "Bar Chart" /\ Len(cat) > 0 /\ Len(num) > 0
       THEN ("selected_cat_col" :> selectbox(ws, "selected_cat_col", cat, 0))
            @@ ("selected_num_col" :> selectbox(ws, "selected_num_col", num, 0))
       ELSE IF pt = "Scatter Plot" /\ Len(num) > 2
       THEN ("x_axis" :> selectbox(ws, "x_axis", num, 0))
            @@ ("y_axis" :> selectbox(ws, "y_axis", num, IF Len(num) > 1 THEN 1 ELSE 0))
       ELSE NoWidgets

(* Histogram offered over all_columns. *)
column_widgets_all(d, pt, ws) ==
    LET num == select_dtypes(d, {"number"})
        cat == select_dtypes(d, {"object", "category"})
    IN IF pt = "Histogram" /\ Len(num) > 0
       THEN "selected_col" :> selectbox(ws, "selected_col", d.columns, 0)
       ELSE IF pt = "Bar Chart" /\ Len(cat) > 0 /\ Len(num) > 0
       THEN ("selected_cat_col" :> selectbox(ws, "selected_cat_col", cat, 0))
            @@ ("selected_num_col" :> selectbox(ws, "selected_num_col", num, 0))
       ELSE IF pt = "Scatter Plot" /\ Len(num) >= 2
       THEN ("x_axis" :> selectbox(ws, "x_axis", num, 0))
            @@ ("y_axis" :> selectbox(ws, "y_axis", num, IF Len(num) > 1 THEN 1 ELSE 0))
       ELSE NoWidgets

column_widgets(d, pt, ws) ==
    LET num == numerical_columns(d)
        cat == categorical_columns(d)
    IN IF pt = "Histogram" /\ Len(num) > 0
       THEN "selected_col" :> selectbox(ws, "selected_col", num, 0)
       ELSE IF pt = "Bar Chart" /\ Len(cat) > 0 /\ Len(num) > 0
       THEN ("selected_cat_col" :> selectbox(ws, "selected_cat_col", cat, 0))
            @@ ("selected_num_col" :> selectbox(ws, "selected_num_col", num, 0))
       ELSE IF pt = "Scatter Plot" /\ Len(num) >= 2
       THEN ("x_axis" :> selectbox(ws, "x_axis", num, 0))
            @@ ("y_axis" :> selectbox(ws, "y_axis", num, IF Len(num) > 1 THEN 1 ELSE 0))
       ELSE NoWidgets

WidgetOptions(d, key) ==
    IF key = "selected_cat_col" THEN categorical_columns(d) ELSE numerical_columns(d)

-----------------------------------------------------------------------------
(* The interactive plot *)

NoChart == [kind |-> "None", cols |-> <<>>]

interactive_plot(pt, locals) ==
    IF pt = "Histogram" /\ "selected_col" \in DOMAIN locals
    THEN [kind |-> "Histogram", cols |-> <<locals["selected_col"]>>]
    ELSE IF pt = "Bar Chart" /\ "selected_cat_col" \in DOMAIN locals
                             /\ "selected_num_col" \in DOMAIN locals
    THEN [kind |-> "Bar Chart", cols |-> <<locals["selected_cat_col"], locals["selected_num_col"]>>]
    ELSE IF pt = "Scatter Plot" /\ "x_axis" \in DOMAIN locals /\ "y_axis" \in DOMAIN locals
    THEN [kind |-> "Scatter Plot", cols |-> <<locals["x_axis"], locals["y_axis"]>>]
    ELSE NoChart

plot_generated(c) == c.kind # "None"

-----------------------------------------------------------------------------
(* The report: a text is a sequence of lines, a line a sequence of fields. *)

info_to_string(info) ==
    <<<<"", "Column", "Non-Null Count", "Data Type">>>>
    \o [i \in 1..Len(info) |->
           <<ToString(i - 1), info[i].Column, ToString(info[i].NonNullCount), info[i].DataType>>]

summary_to_string(s) ==
    <<<<"", "Metric">> \o s.columns>>
    \o [i \in 1..Len(s.metrics) |-> <<ToString(i - 1), s.metrics[i]>> \o s.values[i]]

ReportHeader ==
    <<<<"PROFESSIONAL DATA ANALYSIS REPORT">>,
      <<"====================================">>,
      <<>>,
      <<"1. DATA INFORMATION">>,
      <<"-------------------">>>>

StatisticsHeading ==
    <<<<>>,
      <<"2. STATISTICAL SUMMARY">>,
      <<"----------------------">>>>

build_report_swapped(a) ==
    ReportHeader \o summary_to_string(a.statistical_summary_df)
    \o StatisticsHeading \o info_to_string(a.info_df)

build_report(a) ==
    ReportHeader \o info_to_string(a.info_df)
    \o StatisticsHeading \o summary_to_string(a.statistical_summary_df)

-----------------------------------------------------------------------------
(* One run of the script *)

heatmap_section_else(a) ==
    IF a.correlation_matrix_fig # "None" THEN {"heatmap", "heatmap_info"} ELSE {"heatmap_info"}

heatmap_section(a) ==
    IF a.correlation_matrix_fig # "None" THEN {"heatmap", "heatmap_info"} ELSE {}

plot_section(c) ==
    IF plot_generated(c) THEN {"chart"} ELSE {"plot_info"}

Halted(file, calls, elements) ==
    [df |-> NoDf, analysis |-> NoAnalysis, plot_type |-> "", script_locals |-> NoWidgets,
     rendered |-> NoWidgets, chart |-> NoChart, report_contents |-> <<>>,
     page |-> elements, read_csv_calls |-> calls]

RunScript(file, ws) ==
    IF file.kind = "none" THEN Halted(file, 0, {"awaiting_info"})
    ELSE LET parsed == read_csv(file) IN
         IF parsed.error THEN Halted(file, 1, {"exception"})
         ELSE LET d == parsed.df
                  a == professional_analysis(d)
                  pt == selectbox(ws, "plot_type", PlotTypes, 0)
                  locals == column_widgets(d, pt, ws)
                  c == interactive_plot(pt, locals)
              IN [df |-> d,
                  analysis |-> a,
                  plot_type |-> pt,
                  script_locals |-> locals,
                  rendered |-> ("plot_type" :> pt) @@ locals,
                  chart |-> c,
                  report_contents |-> build_report(a),
                  page |-> {"data_preview", "success", "info_df", "statistical_summary_df"}
                           \cup heatmap_section(a) \cup plot_section(c)
                           \cup {"download_button"},
                  read_csv_calls |-> 1]

Rerun(file, ws) ==
    LET r == RunScript(file, ws)
    IN /\ uploaded_file' = file
       /\ session_state' = widget_state(ws, r.rendered)
       /\ df' = r.df
       /\ analysis' = r.analysis
       /\ plot_type' = r.plot_type
       /\ script_locals' = r.script_locals
       /\ chart' = r.chart
       /\ report_contents' = r.report_contents
       /\ page' = r.page
       /\ read_csv_calls' = r.read_csv_calls

-----------------------------------------------------------------------------
(* The user's interactions; each one reruns the script.  Replacing the    *)
(* uploaded file is RemoveFile followed by an upload.  The pandas and      *)
(* seaborn calls on a parsed DataFrame are taken not to raise.             *)

Init ==
    /\ uploaded_file = NoFile
    /\ session_state = NoWidgets
    /\ df = NoDf
    /\ analysis = NoAnalysis
    /\ plot_type = ""
    /\ script_locals = NoWidgets
    /\ chart = NoChart
    /\ report_contents = <<>>
    /\ page = {"awaiting_info"}
    /\ read_csv_calls = 0

UploadFile(f) == Rerun(f, session_state)

UploadCsv ==
    /\ uploaded_file.kind = "none"
    /\ \E n \in 1..MaxCols :
          \E m \in 0..MaxRows(n) :
             \E rs \in [1..m -> [1..n -> Cells]] : UploadFile(CsvFile(n, rs))

UploadMalformed ==
    /\ uploaded_file.kind = "none"
    /\ UploadFile(Malformed)

RemoveFile ==
    /\ uploaded_file.kind # "none"
    /\ Rerun(NoFile, session_state)

SelectPlotType(k) ==
    /\ "plot_type" \in DOMAIN session_state
    /\ k # session_state["plot_type"]
    /\ Rerun(uploaded_file, [session_state EXCEPT !["plot_type"] = k])

SelectColumn(key, c) ==
    /\ key \in DOMAIN session_state
    /\ key # "plot_type"
    /\ c \in Range(WidgetOptions(df, key))
    /\ c # session_state[key]
    /\ Rerun(uploaded_file, [session_state EXCEPT ![key] = c])

ColumnKeys == {"selected_col", "selected_cat_col", "selected_num_col", "x_axis", "y_axis"}

Next ==
    \/ UploadCsv
    \/ UploadMalformed
    \/ RemoveFile
    \/ \E k \in Range(PlotTypes) : SelectPlotType(k)
    \/ \E key \in ColumnKeys, i \in 1..MaxCols : SelectColumn(key, ColName(i))

Spec == Init /\ [][Next]_vars

-----------------------------------------------------------------------------
(* Properties *)

NumCols(d) == {i \in 1..Len(d.columns) : d.dtypes[i] = "number"}

CatCols(d) == {i \in 1..Len(d.columns) : d.dtypes[i] \in {"object", "category"}}

IsNumeric(d, c) == \E i \in NumCols(d) : d.columns[i] = c

IsCategorical(d, c) == \E i \in CatCols(d) : d.columns[i] = c

PreconditionMet(d, pt) ==
    \/ pt = "Histogram" /\ Cardinality(NumCols(d)) >= 1
    \/ pt = "Bar Chart" /\ Cardinality(CatCols(d)) >= 1 /\ Cardinality(NumCols(d)) >= 1
    \/ pt = "Scatter Plot" /\ Cardinality(NumCols(d)) >= 2

KeysOf(pt) ==
    IF pt = "Histogram" THEN {"selected_col"}
    ELSE IF pt = "Bar Chart" THEN {"selected_cat_col", "selected_num_col"}
    ELSE IF pt = "Scatter Plot" THEN {"x_axis", "y_axis"}
    ELSE {}

TypeOK ==
    /\ uploaded_file \in {NoFile, Malformed} \/ IsCsvFile(uploaded_file)
    /\ DOMAIN session_state \subseteq ColumnKeys \cup {"plot_type"}
    /\ df.defined \in BOOLEAN
    /\ plot_type \in Range(PlotTypes) \cup {""}
    /\ chart.kind \in Range(PlotTypes) \cup {"None"}
    /\ read_csv_calls \in 0..1

(* C1, as stated: a Table without numeric columns gets an empty statistical *)
(* summary and no correlation matrix, and no error is raised.               *)
C1_EmptySummary ==
    (df.defined /\ NumCols(df) = {}) =>
        /\ analysis.statistical_summary_df.columns = <<>>
        /\ analysis.correlation_matrix_fig = "None"
        /\ "exception" \notin page

(* C1, amended: a Table without numeric columns gets a statistical summary  *)
(* of all its columns with the rows count, unique, top and freq; the        *)
(* correlation matrix is absent and no error is raised.                     *)
C1_CategoricalSummary ==
    (df.defined /\ NumCols(df) = {}) =>
        /\ analysis.statistical_summary_df.columns = df.columns
        /\ analysis.statistical_summary_df.metrics = <<"count", "unique", "top", "freq">>
        /\ Len(analysis.statistical_summary_df.values) = 4
        /\ "statistical_summary_df" \in page
        /\ analysis.correlation_matrix_fig = "None"
        /\ "heatmap" \notin page
        /\ "exception" \notin page

C1_Witness ==
    /\ df.defined
    /\ Len(df.columns) >= 2
    /\ NumCols(df) = {}
    /\ \E i \in 1..Len(df.columns) : df.dtypes[i] = "object" /\ df.non_null[i] > 0
    /\ "statistical_summary_df" \in page

(* C2: a displayed scatter chart has two distinct numeric columns of the    *)
(* Table on its axes.                                                       *)
C2_ScatterDistinct ==
    (df.defined /\ "chart" \in page /\ chart.kind = "Scatter Plot") =>
        /\ chart.cols[1] # chart.cols[2]
        /\ IsNumeric(df, chart.cols[1])
        /\ IsNumeric(df, chart.cols[2])

(* C3, as stated: with fewer than two numeric columns the correlation       *)
(* matrix is absent, the heatmap is not rendered and an informational       *)
(* message is shown.                                                        *)
C3_MessageInstead ==
    (df.defined /\ Cardinality(NumCols(df)) < 2) =>
        /\ analysis.correlation_matrix_fig = "None"
        /\ "heatmap" \notin page
        /\ page \cap {"heatmap_info", "plot_info"} # {}

(* C3, amended: with fewer than two numeric columns the correlation matrix  *)
(* is absent and the heatmap is not rendered; nothing is shown in its       *)
(* place, the only informational message of such a run is the plotting      *)
(* section's, shown exactly when no chart is generated.                     *)
C3_HeatmapOmitted ==
    (df.defined /\ Cardinality(NumCols(df)) < 2) =>
        /\ analysis.correlation_matrix_fig = "None"
        /\ "heatmap" \notin page
        /\ "heatmap_info" \notin page
        /\ ("plot_info" \in page) <=> (chart.kind = "None")

C3_Witness ==
    /\ df.defined
    /\ Cardinality(NumCols(df)) = 1
    /\ chart.kind = "Histogram"
    /\ "heatmap" \notin page
    /\ "plot_info" \notin page

(* C4: when the Table does not meet the column preconditions of the         *)
(* selected plot kind, the run draws no chart, shows the informational      *)
(* message and raises no error.                                             *)
C4_NoChartWithoutPrecondition ==
    (df.defined /\ ~PreconditionMet(df, plot_type)) =>
        /\ chart = NoChart
        /\ "chart" \notin page
        /\ "plot_info" \in page
        /\ "exception" \notin page

C4_Witness ==
    /\ df.defined
    /\ plot_type = "Bar Chart"
    /\ NumCols(df) # {}
    /\ CatCols(df) = {}
    /\ "plot_info" \in page

(* C5: when parsing the upload fails the run has no Table, displays only    *)
(* the failure, computes no summary, heatmap, chart or report, and calls    *)
(* the parser once.                                                         *)
C5_ParseErrorStopsRun ==
    (uploaded_file.kind = "malformed") =>
        /\ ~df.defined
        /\ page = {"exception"}
        /\ analysis = NoAnalysis
        /\ chart = NoChart
        /\ report_contents = <<>>
        /\ read_csv_calls = 1

C5_Witness ==
    /\ uploaded_file.kind = "malformed"
    /\ "exception" \in page

(* C6: a chart is built from the column selections of the selected plot     *)
(* kind only, each kind needs all its column selections, and a change of    *)
(* plot kind leaves the new kind's selections at their defaults.            *)
C6_ChartFromCurrentKind ==
    /\ DOMAIN session_state \subseteq {"plot_type"} \cup KeysOf(plot_type)
    /\ chart.kind # "None" =>
          /\ chart.kind = plot_type
          /\ KeysOf(plot_type) \subseteq DOMAIN session_state
          /\ Range(chart.cols) = {session_state[k] : k \in KeysOf(plot_type)}

NthColumn(d, S, n) ==
    d.columns[CHOOSE i \in S : Cardinality({j \in S : j < i}) = n - 1]

DefaultCols(d, pt) ==
    IF pt = "Histogram" THEN <<NthColumn(d, NumCols(d), 1)>>
    ELSE IF pt = "Bar Chart" THEN <<NthColumn(d, CatCols(d), 1), NthColumn(d, NumCols(d), 1)>>
    ELSE <<NthColumn(d, NumCols(d), 1), NthColumn(d, NumCols(d), 2)>>

C6_KindChangeResets ==
    (df.defined /\ uploaded_file' = uploaded_file /\ plot_type' # plot_type) =>
        /\ df' = df
        /\ DOMAIN script_locals' \subseteq KeysOf(plot_type')
        /\ chart'.kind # "None" => chart'.cols = DefaultCols(df', plot_type')

C6_SelectionsDiscarded == []C6_ChartFromCurrentKind /\ [][C6_KindChangeResets]_vars

C6_Witness ==
    /\ chart.kind = "Scatter Plot"
    /\ chart.cols[1] # df.columns[1]
    /\ Cardinality(NumCols(df)) >= 3

(* C7: the correlation figure exists and the heatmap is rendered exactly    *)
(* when the Table has at least two numeric columns, and no error is raised  *)
(* otherwise.                                                               *)
C7_HeatmapIffTwoNumeric ==
    df.defined =>
        /\ (analysis.correlation_matrix_fig # "None") <=> (Cardinality(NumCols(df)) >= 2)
        /\ ("heatmap" \in page) <=> (Cardinality(NumCols(df)) >= 2)
        /\ "exception" \notin page

C7_Witness ==
    /\ df.defined
    /\ Cardinality(NumCols(df)) = 2
    /\ Len(df.columns) = 3
    /\ "heatmap" \in page

(* C8: the report starts with the fixed header, followed at once by the     *)
(* rendering of the Column Summary, and ends with the rendering of the      *)
(* Statistical Summary, which starts after the Column Summary has ended.    *)
C8_ReportOrder ==
    df.defined =>
        LET it == info_to_string(analysis.info_df)
            st == summary_to_string(analysis.statistical_summary_df)
            r == report_contents
            i == Len(ReportHeader) + 1
            j == Len(r) - Len(st) + 1
        IN /\ SubSeq(r, 1, Len(ReportHeader)) = ReportHeader
           /\ SubSeq(r, i, i + Len(it) - 1) = it
           /\ SubSeq(r, j, Len(r)) = st
           /\ i + Len(it) <= j
           /\ Len(it) = Len(df.columns) + 1
           /\ Len(st) > 1

C8_Witness ==
    /\ df.defined
    /\ "download_button" \in page
    /\ Len(analysis.info_df) = 3
    /\ Len(analysis.statistical_summary_df.columns) = 2

(* C9: a run that shows the plotting message still offers the report, and   *)
(* selecting from it a plot kind whose preconditions the same Table meets   *)
(* draws that chart in the next run.                                        *)
C9_DownloadWithMessage ==
    ("plot_info" \in page) => ("download_button" \in page /\ report_contents # <<>>)

C9_NextSelectionDraws ==
    (/\ df.defined
     /\ "plot_info" \in page
     /\ uploaded_file' = uploaded_file
     /\ plot_type' # plot_type
     /\ PreconditionMet(df, plot_type')) =>
        /\ "chart" \in page'
        /\ chart'.kind = plot_type'
        /\ df' = df

C9_StaysUsable == []C9_DownloadWithMessage /\ [][C9_NextSelectionDraws]_vars

C9_Witness ==
    /\ df.defined
    /\ "plot_info" \in page
    /\ "download_button" \in page
    /\ \E k \in Range(PlotTypes) : k # plot_type /\ PreconditionMet(df, k)

(* C10: a run with a parsed Table shows either a chart or the plotting      *)
(* message, never both, and a chart has the selected kind and columns of    *)
(* the Table of the types that kind requires.                               *)
C10_ChartOrMessage ==
    df.defined =>
        /\ ("chart" \in page) # ("plot_info" \in page)
        /\ ("chart" \in page) <=> (chart.kind # "None")
        /\ "chart" \in page =>
              /\ chart.kind = plot_type
              /\ chart.kind = "Histogram" =>
                    Len(chart.cols) = 1 /\ IsNumeric(df, chart.cols[1])
              /\ chart.kind = "Bar Chart" =>
                    /\ Len(chart.cols) = 2
                    /\ IsCategorical(df, chart.cols[1])
                    /\ IsNumeric(df, chart.cols[2])
              /\ chart.kind = "Scatter Plot" =>
                    /\ Len(chart.cols) = 2
                    /\ IsNumeric(df, chart.cols[1])
                    /\ IsNumeric(df, chart.cols[2])

C10_Witness ==
    /\ df.defined
    /\ "chart" \in page
    /\ chart.kind = "Bar Chart"
    /\ chart.cols[1] # df.columns[1]

====
